---- MODULE Spec2Model ----
(***************************************************************************)
(* Document verification service: the HTTP view (POST / GET), the job      *)
(* table, the task queue and the worker task process_document_verification *)
(* together with the forgery detector it calls.                            *)
(*                                                                         *)
(* Confidence scores are kept in tenths (5 stands for 0.5).  Python's None *)
(* is the empty sequence and a present value v is <<v>>.  A JSON dict is a *)
(* record; the empty dict is the function with the empty domain.           *)
(***************************************************************************)
EXTENDS Integers, Sequences, FiniteSets, TLC

VARIABLES rows, queue, deliveries, worker, api, clock, loads

vars == <<rows, queue, deliveries, worker, api, clock, loads>>

\* ---------------------------------------------------------------- bounds
MaxJobs == 2

MaxDeliveries == 2

JobIds == 1..MaxJobs

Workers == {"w1", "w2"}

Documents == {"docA"}

NoDocument == "no_document"

\* outputs of the opaque trained model, in tenths
Predictions == {5, 6}

\* ---------------------------------------------------------------- values
None == <<>>

Some(v) == <<v>>

EmptyDict == [k \in {} |-> None]

STATUS_CHOICES == {"pending", "processing", "completed", "failed"}

\* the comparison constant of detect_forgery, 0.5 in tenths
Threshold == 5

\* a VerificationJob as objects.create(document_hash, file_path, status) builds it
VerificationJob(id, hash, path, now) ==
    [id |-> id,
     document_hash |-> hash,
     file_path |-> path,
     status |-> "pending",
     confidence_score |-> None,
     analysis_results |-> EmptyDict,
     created_at |-> now,
     completed_at |-> None]

\* a save that also writes the status into every other row of the table
save_AllRows(table, job) ==
    [id \in DOMAIN table |->
        IF id = job.id THEN job ELSE [table[id] EXCEPT !.status = job.status]]

\* job.save(): the whole instance is written over the row of its primary key
save(table, job) == [table EXCEPT ![job.id] = job]

\* default=uuid.uuid4: an id no existing row has
uuid4(used) == CHOOSE id \in JobIds \ used : \A other \in JobIds \ used : id <= other

\* helpers of the view that the upload goes through
calculate_hash(doc) == <<"sha256", doc>>

save_file(doc) == <<"uploads", doc>>

\* ------------------------------------------------------------- detector
\* the three sub-analyses called by get_detailed_analysis
check_font_consistency(path) == "font_report"

analyze_pixels(path) == "pixel_report"

detect_compression_artifacts(path) == "compression_report"

\* get_detailed_analysis with the pixel analysis left out
get_detailed_analysis_NoPixels(path) ==
    [font_consistency |-> check_font_consistency(path),
     compression_artifacts |-> detect_compression_artifacts(path)]

get_detailed_analysis(path) ==
    [font_consistency |-> check_font_consistency(path),
     pixel_analysis |-> analyze_pixels(path),
     compression_artifacts |-> detect_compression_artifacts(path)]

\* detect_forgery with a non-strict comparison
detect_forgery_NonStrict(path, confidence) ==
    LET is_authentic == confidence >= Threshold
    IN  [is_authentic |-> is_authentic,
         confidence_score |-> confidence,
         analysis_details |-> get_detailed_analysis(path)]

\* detect_forgery once preprocessing and predict have returned `confidence`
detect_forgery(path, confidence) ==
    LET is_authentic == confidence > Threshold
    IN  [is_authentic |-> is_authentic,
         confidence_score |-> confidence,
         analysis_details |-> get_detailed_analysis(path)]

\* the places of detect_forgery (and of the constructor) that can raise
DetectErrors == {"model load failed", "image decode failed", "inference failed"}

DetectOutcomes ==
    [raises : {"image decode failed", "inference failed"}]
      \cup [prediction : Predictions]

\* ----------------------------------------------------------------- state
IdleTask == [pc |-> "idle", job_id |-> None, job |-> None,
             results |-> None, exc |-> None]

IdleApi == [pc |-> "idle", req |-> None, job |-> None, resp |-> None]

Init ==
    /\ rows = EmptyDict
    /\ queue = [id \in JobIds |-> 0]
    /\ deliveries = 0
    /\ worker = [w \in Workers |-> IdleTask]
    /\ api = IdleApi
    /\ clock = 0
    /\ loads = [w \in Workers |-> 0]

Free(w) == worker[w].pc \in {"idle", "returned", "raised"}

\* ---------------------------------------------------------------- worker
\* the broker hands a published job id to a free worker; a message may be
\* delivered again (at-least-once); MaxDeliveries bounds the deliveries of a run
Deliver(w, id) ==
    /\ Free(w)
    /\ queue[id] > 0
    /\ deliveries < MaxDeliveries
    /\ deliveries' = deliveries + 1
    /\ worker' = [worker EXCEPT ![w] =
                    [IdleTask EXCEPT !.pc = "get", !.job_id = Some(id)]]
    /\ UNCHANGED <<rows, queue, api, clock, loads>>

\* job = VerificationJob.objects.get(id=job_id)
Lookup(w, fault) ==
    /\ worker[w].pc = "get"
    /\ LET id == worker[w].job_id[1]
       IN  worker' = [worker EXCEPT ![w] =
              IF id \notin DOMAIN rows
                THEN [@ EXCEPT !.pc = "except", !.exc = Some("DoesNotExist")]
              ELSE IF fault
                THEN [@ EXCEPT !.pc = "except", !.exc = Some("database error")]
              ELSE [@ EXCEPT !.pc = "set_processing", !.job = Some(rows[id])]]
    /\ UNCHANGED <<rows, queue, deliveries, api, clock, loads>>

\* job.status = 'processing'; job.save()
SaveProcessing(w, fault) ==
    /\ worker[w].pc = "set_processing"
    /\ LET job == [worker[w].job[1] EXCEPT !.status = "processing"]
       IN  IF fault
             THEN /\ worker' = [worker EXCEPT ![w] =
                        [@ EXCEPT !.pc = "except", !.job = Some(job),
                                  !.exc = Some("database error")]]
                  /\ UNCHANGED rows
             ELSE /\ worker' = [worker EXCEPT ![w] =
                        [@ EXCEPT !.pc = "construct", !.job = Some(job)]]
                  /\ rows' = save(rows, job)
    /\ UNCHANGED <<queue, deliveries, api, clock, loads>>

\* detector = ForgeryDetector(): __init__ calls load_model, in the worker
\* process that runs the task; loads[w] counts the calls made by process w
Construct(w, fault) ==
    /\ worker[w].pc = "construct"
    /\ worker' = [worker EXCEPT ![w] =
          IF fault
            THEN [@ EXCEPT !.pc = "except", !.exc = Some("model load failed")]
            ELSE [@ EXCEPT !.pc = "detect"]]
    /\ loads' = [loads EXCEPT ![w] = @ + 1]
    /\ UNCHANGED <<rows, queue, deliveries, api, clock>>

\* results = detector.detect_forgery(job.file_path)
Detect(w, outcome) ==
    /\ worker[w].pc = "detect"
    /\ worker' = [worker EXCEPT ![w] =
          IF "raises" \in DOMAIN outcome
            THEN [@ EXCEPT !.pc = "except", !.exc = Some(outcome.raises)]
            ELSE [@ EXCEPT !.pc = "set_completed",
                           !.results = Some(detect_forgery(
                               worker[w].job[1].file_path, outcome.prediction))]]
    /\ UNCHANGED <<rows, queue, deliveries, api, clock, loads>>

\* the four assignments of the success path and the save that follows them
SaveCompleted(w, fault) ==
    /\ worker[w].pc = "set_completed"
    /\ LET results == worker[w].results[1]
           job == [worker[w].job[1] EXCEPT
                      !.confidence_score = Some(results.confidence_score),
                      !.analysis_results = results,
                      !.status = "completed",
                      !.completed_at = Some(clock + 1)]
       IN  IF fault
             THEN /\ worker' = [worker EXCEPT ![w] =
                        [@ EXCEPT !.pc = "except", !.job = Some(job),
                                  !.exc = Some("database error")]]
                  /\ UNCHANGED rows
             ELSE /\ worker' = [worker EXCEPT ![w] =
                        [IdleTask EXCEPT !.pc = "returned"]]
                  /\ rows' = save(rows, job)
    /\ clock' = clock + 1
    /\ UNCHANGED <<queue, deliveries, api, loads>>

\* except Exception as e: job.status = 'failed'; job.analysis_results = ...;
\* job.save().  The handler uses the local name `job`: when the lookup itself
\* raised, the name is unbound and the handler raises UnboundLocalError out of
\* the task.  Faults are injected at the steps inside the try block; the save
\* of the handler is taken to succeed.
HandleException(w) ==
    /\ worker[w].pc = "except"
    /\ IF worker[w].job = None
         THEN /\ worker' = [worker EXCEPT ![w] = [IdleTask EXCEPT !.pc = "raised"]]
              /\ UNCHANGED rows
         ELSE LET job == [worker[w].job[1] EXCEPT
                             !.status = "failed",
                             !.analysis_results = [error |-> worker[w].exc[1]]]
              IN  /\ worker' = [worker EXCEPT ![w] = [IdleTask EXCEPT !.pc = "returned"]]
                  /\ rows' = save(rows, job)
    /\ UNCHANGED <<queue, deliveries, api, clock, loads>>

\* ------------------------------------------------------------------ view
\* post() handing the id to the queue first and never creating the row
Post_EnqueueFirst(doc) ==
    /\ api.pc = "idle"
    /\ IF doc = NoDocument
         THEN /\ api' = [pc |-> "responded",
                         req |-> Some([method |-> "POST", document |-> doc]),
                         job |-> None,
                         resp |-> Some([code |-> 400,
                                        body |-> [error |-> "No document provided"]])]
              /\ UNCHANGED queue
         ELSE /\ JobIds \ DOMAIN rows # {}
              /\ LET job == VerificationJob(uuid4(DOMAIN rows), calculate_hash(doc),
                                            save_file(doc), clock + 1)
                 IN /\ queue' = [queue EXCEPT ![job.id] = @ + 1]
                    /\ api' = [pc |-> "respond",
                               req |-> Some([method |-> "POST", document |-> doc]),
                               job |-> Some(job),
                               resp |-> None]
    /\ UNCHANGED <<rows, clock, deliveries, worker, loads>>

\* post() creating the row before it looks at the upload
Post_CreateFirst(doc) ==
    /\ api.pc = "idle"
    /\ JobIds \ DOMAIN rows # {}
    /\ LET job == VerificationJob(uuid4(DOMAIN rows), calculate_hash(doc),
                                  save_file(doc), clock + 1)
       IN /\ rows' = (job.id :> job) @@ rows
          /\ clock' = clock + 1
          /\ api' = IF doc = NoDocument
                      THEN [pc |-> "responded",
                            req |-> Some([method |-> "POST", document |-> doc]),
                            job |-> None,
                            resp |-> Some([code |-> 400,
                                           body |-> [error |-> "No document provided"]])]
                      ELSE [pc |-> "enqueue",
                            req |-> Some([method |-> "POST", document |-> doc]),
                            job |-> Some(job),
                            resp |-> None]
    /\ UNCHANGED <<queue, deliveries, worker, loads>>

\* post(): request.FILES.get('document'), the 400 answer, objects.create
Post(doc) ==
    /\ api.pc = "idle"
    /\ IF doc = NoDocument
         THEN /\ api' = [pc |-> "responded",
                         req |-> Some([method |-> "POST", document |-> doc]),
                         job |-> None,
                         resp |-> Some([code |-> 400,
                                        body |-> [error |-> "No document provided"]])]
              /\ UNCHANGED <<rows, clock>>
         ELSE /\ JobIds \ DOMAIN rows # {}
              /\ LET job == VerificationJob(uuid4(DOMAIN rows), calculate_hash(doc),
                                            save_file(doc), clock + 1)
                 IN /\ rows' = (job.id :> job) @@ rows
                    /\ clock' = clock + 1
                    /\ api' = [pc |-> "enqueue",
                               req |-> Some([method |-> "POST", document |-> doc]),
                               job |-> Some(job),
                               resp |-> None]
    /\ UNCHANGED <<queue, deliveries, worker, loads>>

\* process_document_verification.delay(str(job.id))
PostEnqueue ==
    /\ api.pc = "enqueue"
    /\ queue' = [queue EXCEPT ![api.job[1].id] = @ + 1]
    /\ api' = [api EXCEPT !.pc = "respond"]
    /\ UNCHANGED <<rows, deliveries, worker, clock, loads>>

\* post() answering with the status re-read from the table
PostRespond_Reread ==
    /\ api.pc = "respond"
    /\ api' = [api EXCEPT !.pc = "responded",
                          !.resp = Some([code |-> 200,
                                         body |-> [verification_id |-> api.job[1].id,
                                                   status |-> rows[api.job[1].id].status]])]
    /\ UNCHANGED <<rows, queue, deliveries, worker, clock, loads>>

\* the Response of post(), built from the in-memory job
PostRespond ==
    /\ api.pc = "respond"
    /\ api' = [api EXCEPT !.pc = "responded",
                          !.resp = Some([code |-> 200,
                                         body |-> [verification_id |-> api.job[1].id,
                                                   status |-> api.job[1].status]])]
    /\ UNCHANGED <<rows, queue, deliveries, worker, clock, loads>>

\* get() answering from the row's creation defaults instead of its fields
Get_Stale(verification_id) ==
    /\ api.pc = "idle"
    /\ api' = [pc |-> "responded",
               req |-> Some([method |-> "GET", verification_id |-> verification_id]),
               job |-> None,
               resp |-> IF verification_id \in DOMAIN rows
                          THEN LET job == rows[verification_id]
                               IN  Some([code |-> 200,
                                         body |-> [verification_id |-> job.id,
                                                   status |-> "pending",
                                                   confidence_score |-> None,
                                                   analysis_results |-> EmptyDict]])
                          ELSE Some([code |-> 404,
                                     body |-> [error |-> "Verification job not found"]])]
    /\ UNCHANGED <<rows, queue, deliveries, worker, clock, loads>>

\* get(): the lookup, the 200 answer and the 404 answer
Get(verification_id) ==
    /\ api.pc = "idle"
    /\ api' = [pc |-> "responded",
               req |-> Some([method |-> "GET", verification_id |-> verification_id]),
               job |-> None,
               resp |-> IF verification_id \in DOMAIN rows
                          THEN LET job == rows[verification_id]
                               IN  Some([code |-> 200,
                                         body |-> [verification_id |-> job.id,
                                                   status |-> job.status,
                                                   confidence_score |-> job.confidence_score,
                                                   analysis_results |-> job.analysis_results]])
                          ELSE Some([code |-> 404,
                                     body |-> [error |-> "Verification job not found"]])]
    /\ UNCHANGED <<rows, queue, deliveries, worker, clock, loads>>

\* the Response has been returned to the client; the view takes the next request
Finish ==
    /\ api.pc = "responded"
    /\ api' = IdleApi
    /\ UNCHANGED <<rows, queue, deliveries, worker, clock, loads>>

\* ------------------------------------------------------------------ spec
Next ==
    \/ \E w \in Workers, id \in JobIds : Deliver(w, id)
    \/ \E w \in Workers, fault \in BOOLEAN : Lookup(w, fault)
    \/ \E w \in Workers, fault \in BOOLEAN : SaveProcessing(w, fault)
    \/ \E w \in Workers, fault \in BOOLEAN : Construct(w, fault)
    \/ \E w \in Workers, outcome \in DetectOutcomes : Detect(w, outcome)
    \/ \E w \in Workers, fault \in BOOLEAN : SaveCompleted(w, fault)
    \/ \E w \in Workers : HandleException(w)
    \/ \E doc \in Documents \cup {NoDocument} : Post(doc)
    \/ PostEnqueue
    \/ PostRespond
    \/ \E id \in JobIds : Get(id)
    \/ Finish

Spec == Init /\ [][Next]_vars

\* one step of the task running in worker process w
WorkerStep(w) ==
    \/ \E fault \in BOOLEAN : Lookup(w, fault)
    \/ \E fault \in BOOLEAN : SaveProcessing(w, fault)
    \/ \E fault \in BOOLEAN : Construct(w, fault)
    \/ \E outcome \in DetectOutcomes : Detect(w, outcome)
    \/ \E fault \in BOOLEAN : SaveCompleted(w, fault)
    \/ HandleException(w)

\* the worker pool runs every task it was handed: a started task is not
\* suspended forever, and every call it makes returns or raises
FairSpec == Spec /\ \A w \in Workers : WF_vars(WorkerStep(w))

\* ---------------------------------------------------------------- claims
StatusTransitions ==
    {<<"pending", "processing">>, <<"processing", "completed">>,
     <<"processing", "failed">>}

\* C1: every change of a row's persisted status is pending->processing,
\* processing->completed or processing->failed; the status never moves back.
C1_StatusOnlyForward ==
    [][\A id \in DOMAIN rows :
          rows'[id].status # rows[id].status
            => <<rows[id].status, rows'[id].status>> \in StatusTransitions]_vars

\* C2: in every persisted state of every row, confidence_score is non-null
\* exactly when the status is completed.
C2_ScoreIffCompleted ==
    \A id \in DOMAIN rows :
        (rows[id].confidence_score # None) <=> (rows[id].status = "completed")

\* C3: in every persisted state of every row, analysis_results has the key
\* 'error' exactly when the status is failed.
C3_ErrorIffFailed ==
    \A id \in DOMAIN rows :
        ("error" \in DOMAIN rows[id].analysis_results)
            <=> (rows[id].status = "failed")

\* C4: an exception raised at any step of the task is absorbed: the task
\* returns normally and leaves the job failed with the error message stored.
C4_ExceptionAbsorbed ==
    [][\A w \in Workers :
          (worker[w].pc = "except" /\ worker'[w].pc # "except")
            => /\ worker'[w].pc = "returned"
               /\ rows'[worker[w].job_id[1]].status = "failed"
               /\ rows'[worker[w].job_id[1]].analysis_results
                      = [error |-> worker[w].exc[1]]]_vars

\* C5: when detection raises during an execution, the execution ends with the
\* persisted job failed, an error description stored and a null confidence_score.
C5_DetectionFailureRecorded ==
    [][\A w \in Workers :
          (/\ worker[w].pc = "except"
           /\ worker[w].exc[1] \in DetectErrors
           /\ worker'[w].pc # "except")
            => LET job == rows'[worker[w].job_id[1]]
               IN  /\ job.status = "failed"
                   /\ "error" \in DOMAIN job.analysis_results
                   /\ job.confidence_score = None]_vars

AnalysisCategories == {"font_consistency", "pixel_analysis", "compression_artifacts"}

\* the answers the view has just produced
GetAnswered == api.pc = "responded" /\ api.req[1].method = "GET"

PostAnswered == api.pc = "responded" /\ api.req[1].method = "POST"

C7_AuthenticIffAboveHalf ==
    \A id \in DOMAIN rows :
        rows[id].status = "completed"
          => /\ rows[id].confidence_score # None
             /\ rows[id].analysis_results.is_authentic
                  = (rows[id].confidence_score[1] > Threshold)
             /\ rows[id].analysis_results.confidence_score
                  = rows[id].confidence_score[1]

C7_Witness ==
    \E id \in DOMAIN rows :
        /\ rows[id].status = "completed"
        /\ rows[id].confidence_score = Some(Threshold)
        /\ rows[id].analysis_results.is_authentic = FALSE

\* C8: a POST without a document is answered 400; it creates no row, changes
\* no row and enqueues nothing.
C8_MissingDocumentNoEffect ==
    [][(/\ api.pc = "idle"
        /\ api'.pc # "idle"
        /\ api'.req[1].method = "POST"
        /\ api'.req[1].document = NoDocument)
         => /\ api'.pc = "responded"
            /\ api'.resp[1].code = 400
            /\ UNCHANGED <<rows, queue>>]_vars

C8_Witness ==
    /\ PostAnswered
    /\ api.req[1].document = NoDocument
    /\ api.resp[1].code = 400
    /\ DOMAIN rows # {}

\* C9: a POST with a document creates exactly one new row (pending, null
\* score, empty analysis_results), enqueues that row's id exactly once and
\* only after the row exists, and answers with that id and status 'pending'
\* whatever a worker has done to the row in the meantime.
C9_PostCreatesEnqueuesAnswersPending ==
    /\ [][(api.pc = "idle" /\ api'.pc = "enqueue")
            => /\ api'.req[1].document # NoDocument
               /\ \E id \in JobIds \ DOMAIN rows :
                     /\ DOMAIN rows' = DOMAIN rows \cup {id}
                     /\ api'.job[1].id = id
                     /\ rows'[id].status = "pending"
                     /\ rows'[id].confidence_score = None
                     /\ rows'[id].analysis_results = EmptyDict
               /\ \A other \in DOMAIN rows : rows'[other] = rows[other]
               /\ queue' = queue]_vars
    /\ [][(api.pc = "enqueue" /\ api' # api)
            => /\ api'.pc = "respond"
               /\ api.job[1].id \in DOMAIN rows
               /\ queue[api.job[1].id] = 0
               /\ queue' = [queue EXCEPT ![api.job[1].id] = 1]
               /\ rows' = rows]_vars
    /\ [][(api.pc = "respond" /\ api' # api)
            => /\ api'.pc = "responded"
               /\ api'.resp[1] = [code |-> 200,
                                  body |-> [verification_id |-> api.job[1].id,
                                            status |-> "pending"]]
               /\ UNCHANGED <<rows, queue>>]_vars
    /\ [](\A id \in JobIds : queue[id] > 0 => id \in DOMAIN rows)

C9_Witness ==
    /\ PostAnswered
    /\ api.resp[1].code = 200
    /\ api.resp[1].body.status = "pending"
    /\ rows[api.resp[1].body.verification_id].status # "pending"
    /\ queue[api.resp[1].body.verification_id] = 1

\* C10: a GET changes no row and nothing on the queue; for an unknown id it
\* answers 404 and for a known id the row's current verification_id, status,
\* confidence_score and analysis_results.
C10_GetReadsOnly ==
    [][(/\ api.pc = "idle"
        /\ api'.pc # "idle"
        /\ api'.req[1].method = "GET")
         => LET id == api'.req[1].verification_id
            IN  /\ api'.pc = "responded"
                /\ UNCHANGED <<rows, queue>>
                /\ IF id \in DOMAIN rows
                     THEN api'.resp[1] =
                            [code |-> 200,
                             body |-> [verification_id |-> id,
                                       status |-> rows[id].status,
                                       confidence_score |-> rows[id].confidence_score,
                                       analysis_results |-> rows[id].analysis_results]]
                     ELSE api'.resp[1].code = 404]_vars

C10_Witness ==
    /\ GetAnswered
    /\ \E id \in DOMAIN rows :
          /\ api.req[1].verification_id = id
          /\ api.resp[1].code = 200
          /\ api.resp[1].body.status = "failed"
          /\ api.resp[1].body = [verification_id |-> id,
                                 status |-> rows[id].status,
                                 confidence_score |-> rows[id].confidence_score,
                                 analysis_results |-> rows[id].analysis_results]

Terminal == {"completed", "failed"}

\* C11: in every persisted state of every row, completed_at is non-null only
\* if the status is completed or failed.
C11_CompletedAtOnlyTerminal ==
    \A id \in DOMAIN rows :
        rows[id].completed_at # None => rows[id].status \in Terminal

\* C12: a worker process calls load_model at most once, however many
\* executions of the task it runs.
C12_ModelLoadedOncePerProcess ==
    \A w \in Workers : loads[w] <= 1

\* an execution is in progress from the moment it has loaded the row until
\* its final save
InProgress(w) == worker[w].job # None

\* C13: no two executions of the task for the same job id are in progress
\* at once.
C13_OneExecutionPerJob ==
    \A w1, w2 \in Workers :
        (w1 # w2 /\ InProgress(w1) /\ InProgress(w2))
          => worker[w1].job_id # worker[w2].job_id

\* C14: rows are created only by POST and never deleted; only executions of
\* the task change a row, and an execution changes neither id, document_hash,
\* file_path or created_at of its row nor any field of another row.
C14_RowsFrame ==
    [][/\ DOMAIN rows \subseteq DOMAIN rows'
       /\ DOMAIN rows' # DOMAIN rows
            => (api.pc = "idle" /\ api'.pc = "enqueue" /\ worker' = worker)
       /\ \A id \in DOMAIN rows :
            /\ rows'[id].id = rows[id].id
            /\ rows'[id].document_hash = rows[id].document_hash
            /\ rows'[id].file_path = rows[id].file_path
            /\ rows'[id].created_at = rows[id].created_at
            /\ rows'[id] # rows[id]
                 => /\ api' = api
                    /\ \E w \in Workers :
                          /\ worker[w].job_id = Some(id)
                          /\ worker'[w] # worker[w]]_vars

C14_Witness ==
    \E id1, id2 \in DOMAIN rows :
        /\ id1 # id2
        /\ rows[id1].status \in Terminal
        /\ rows[id2].status = "pending"
        /\ rows[id2].analysis_results = EmptyDict
        /\ rows[id1].created_at # rows[id2].created_at

\* C15: a job whose id has been delivered to a worker eventually has a
\* terminal status, when the workers keep running the tasks they were handed.
C15_EventuallyTerminal ==
    \A id \in JobIds :
        (\E w \in Workers : worker[w].pc = "get" /\ worker[w].job_id = Some(id))
          ~> (id \in DOMAIN rows /\ rows[id].status \in Terminal)

\* C16: once a row is persisted as completed, its status, confidence_score
\* and analysis_results never change again.
C16_CompletedIsFinal ==
    [][\A id \in DOMAIN rows :
          rows[id].status = "completed"
            => /\ rows'[id].status = rows[id].status
               /\ rows'[id].confidence_score = rows[id].confidence_score
               /\ rows'[id].analysis_results = rows[id].analysis_results]_vars

\* C17: every job id on the queue, and every id a task was started with, has
\* a row; the lookup of the task never fails with not-found.
C17_QueuedIdsHaveRows ==
    /\ \A id \in JobIds : queue[id] > 0 => id \in DOMAIN rows
    /\ \A w \in Workers :
          /\ worker[w].job_id # None => worker[w].job_id[1] \in DOMAIN rows
          /\ worker[w].exc # Some("DoesNotExist")

C17_Witness ==
    \E w \in Workers :
        /\ worker[w].pc = "set_processing"
        /\ worker[w].job # None
        /\ queue[worker[w].job_id[1]] = 1
        /\ worker[w].job[1] = rows[worker[w].job_id[1]]
====
